---- MODULE Spec2Model ----
(***************************************************************************)
(* Order / payment status reconciliation of the edviron backend.           *)
(*                                                                         *)
(* The durable store holds three collections: orders (Order), ledger       *)
(* (OrderStatus) and webhookLogs (WebhookLog).  HTTP requests are handled  *)
(* by async handlers; every `await` on the store or on the vendor is a     *)
(* suspension point, so a handler is a sequence of atomic steps and the    *)
(* steps of different in-flight requests interleave.                       *)
(***************************************************************************)
EXTENDS Integers, Sequences, FiniteSets, TLC

VARIABLES orders, ledger, webhookLogs, req

vars == <<orders, ledger, webhookLogs, req>>

(***************************************************************************)
(* Bounds and input domains                                                *)
(***************************************************************************)
\* create-payment requests admitted in SpecCreate
MaxCreate == 2

Reqs == DOMAIN req

None == "none"

\* an absent (undefined) numeric field
NoAmount == -1

\* an absent date
NoTime == 0

CustomIds == {"ORD1", "ORD2"}

Schools == {"SCH001", "SCH002"}

TxnIds == {"T1", "T2"}

Amounts == {50, 100}

\* status strings a vendor push or a vendor poll answer may carry
RawStatuses == {"pending", "completed", "SUCCESS"}

\* the verified caller identities {role, school_id} a token may carry
Users ==
  { [role |-> "admin", school_id |-> None],
    [role |-> "school", school_id |-> "SCH001"],
    [role |-> "school", school_id |-> None] }

\* amounts a create-payment body may carry; 0 fails isFloat({min: 0.01})
CreateAmounts == {0, 100}

\* outcomes of a vendor HTTP call as VendorClient surfaces them
VendorOutcomes == {"ok", "client_error", "server_error"}

(***************************************************************************)
(* Schemas                                                                 *)
(***************************************************************************)
\* OrderStatus.status enum
StatusEnum == {"created", "pending", "completed", "failed", "cancelled", "refunded"}

\* Order.status enum
OrderStatusEnum == {"created", "pending", "completed", "failed", "cancelled"}

\* the terminal / non-terminal split of the ledger status enumeration
TerminalStatuses == {"completed", "failed", "cancelled", "refunded"}

\* the statuses for which webhook processing also updates Order.status
FinalStatuses == {"completed", "failed", "cancelled"}

(***************************************************************************)
(* Requests                                                                *)
(***************************************************************************)
IdleReq ==
  [kind |-> "idle", pc |-> "idle", cid |-> None, crq |-> 0, txn |-> None,
   raw |-> None, amt |-> 0, role |-> None, usch |-> None, sch |-> None,
   ord |-> 0, ex |-> 0, log |-> 0, code |-> 0, tag |-> None, err |-> None,
   exst |-> None, examt |-> NoAmount, ordst |-> None, wst |-> None,
   wrote |-> FALSE, vcall |-> FALSE, seen |-> FALSE, items |-> 0, latest |-> 0,
   pt |-> NoTime, expt |-> NoTime]

Indexes(s) == 1..Len(s)

\* the greatest element of a non-empty set of integers
MaxOf(S) == CHOOSE x \in S : \A y \in S : y <= x

\* the clock reading of a write that follows every stored insertion by at
\* least one tick (timestamps: true sets createdAt from the clock)
Tick(l) == 1 + MaxOf({0} \cup {l[i].createdAt : i \in Indexes(l)})

\* payment_time defaults to new Date() when the observation carries none
PaymentTimeOf(pt, now) == IF pt = NoTime THEN now ELSE pt

\* Order.findByCustomOrderId: the index of the order, 0 when absent
FindByCustomOrderId(cid) ==
  IF \E i \in Indexes(orders) : orders[i].custom_order_id = cid
  THEN CHOOSE i \in Indexes(orders) : orders[i].custom_order_id = cid
  ELSE 0

\* Order.findOne({collect_request_id})
FindByCollectRequestId(crq) ==
  IF \E i \in Indexes(orders) : orders[i].collect_request_id = crq
  THEN CHOOSE i \in Indexes(orders) :
         /\ orders[i].collect_request_id = crq
         /\ \A j \in Indexes(orders) : orders[j].collect_request_id = crq => i <= j
  ELSE 0

Respond(r, code, tag) ==
  [req[r] EXCEPT !.pc = "done", !.code = code, !.tag = tag]


\* requests are admitted in slot order (slots are interchangeable)
CanStart(r) ==
  /\ req[r].pc = "idle"
  /\ \A q \in Reqs : q < r => req[q].pc # "idle"

(***************************************************************************)
(* Middlewares of the string-keyed variant                                 *)
(***************************************************************************)
\* authorize(allowedRoles): "next" or the rejection
Authorize(role, allowedRoles) ==
  IF role \in allowedRoles THEN "next" ELSE "INSUFFICIENT_PERMISSIONS"

\* authorizeSchool: "next" or the code of the rejection
AuthorizeSchool(user, schoolId) ==
  IF user.role = "admin" THEN "next"
  ELSE IF schoolId = None THEN "SCHOOL_ID_REQUIRED"
  ELSE IF user.school_id # None /\ user.school_id # schoolId
       THEN "SCHOOL_ACCESS_DENIED"
  ELSE "next"

\* the express-validator chain of POST /create-payment
ValidCreateBody(amt) == amt \in Nat /\ amt >= 1

(***************************************************************************)
(* Order collection                                                        *)
(***************************************************************************)
\* a store without the unique index
OrderInsertAllowed_NoIndex(cid) == TRUE

\* the unique index on Order.custom_order_id: may this document be inserted
OrderInsertAllowed(cid) ==
  \A i \in Indexes(orders) : orders[i].custom_order_id # cid

(***************************************************************************)
(* POST /create-payment                                                    *)
(***************************************************************************)
\* middlewares authenticate, authorize, validate, authorizeSchool, then the
\* handler up to its first await
StartCreate(r) ==
  /\ CanStart(r)
  /\ \E u \in Users, cid \in CustomIds, sch \in Schools, amt \in CreateAmounts :
       LET base == [req[r] EXCEPT !.kind = "create", !.cid = cid, !.sch = sch,
                                  !.amt = amt, !.role = u.role,
                                  !.usch = u.school_id,
                                  !.seen = (FindByCustomOrderId(cid) # 0)]
           authz == AuthorizeSchool(u, sch)
       IN  req' = [req EXCEPT ![r] =
             IF Authorize(u.role, {"admin", "school", "trustee"}) # "next"
               THEN [base EXCEPT !.pc = "done", !.code = 403,
                                 !.tag = "INSUFFICIENT_PERMISSIONS"]
             ELSE IF ~ValidCreateBody(amt)
               THEN [base EXCEPT !.pc = "done", !.code = 400,
                                 !.tag = "VALIDATION_ERROR"]
             ELSE IF authz = "SCHOOL_ID_REQUIRED"
               THEN [base EXCEPT !.pc = "done", !.code = 400, !.tag = authz]
             ELSE IF authz = "SCHOOL_ACCESS_DENIED"
               THEN [base EXCEPT !.pc = "done", !.code = 403, !.tag = authz]
             ELSE [base EXCEPT !.pc = "c_find"]]
  /\ UNCHANGED <<orders, ledger, webhookLogs>>

\* Order.findByCustomOrderId and the duplicate check
CreateFindOrder(r) ==
  /\ req[r].kind = "create" /\ req[r].pc = "c_find"
  /\ req' = [req EXCEPT ![r] =
       IF FindByCustomOrderId(req[r].cid) # 0
       THEN Respond(r, 400, "DUPLICATE_ORDER_ID")
       ELSE [req[r] EXCEPT !.pc = "c_vendor"]]
  /\ UNCHANGED <<orders, ledger, webhookLogs>>

\* vendorClient.createCollectRequest: the vendor assigns collect_request_id
CreateVendorCall(r) ==
  /\ req[r].kind = "create" /\ req[r].pc = "c_vendor"
  /\ \E out \in VendorOutcomes :
       req' = [req EXCEPT ![r] =
         IF out = "ok"
           THEN [req[r] EXCEPT !.pc = "c_save", !.crq = r, !.vcall = TRUE]
         ELSE IF out = "client_error"
           THEN [Respond(r, 400, "VENDOR_API_ERROR") EXCEPT !.vcall = TRUE]
         ELSE [Respond(r, 502, "VENDOR_API_ERROR") EXCEPT !.vcall = TRUE]]
  /\ UNCHANGED <<orders, ledger, webhookLogs>>

\* new Order(orderData).save(); a duplicate key error has no statusCode
CreateSaveOrder(r) ==
  /\ req[r].kind = "create" /\ req[r].pc = "c_save"
  /\ IF OrderInsertAllowed(req[r].cid)
     THEN /\ orders' = Append(orders,
                [custom_order_id |-> req[r].cid, school_id |-> req[r].sch,
                 collect_request_id |-> req[r].crq, amount |-> req[r].amt,
                 callback_url |-> "cb", status |-> "pending"])
          /\ req' = [req EXCEPT ![r] =
                [req[r] EXCEPT !.pc = "c_status", !.ord = Len(orders) + 1,
                               !.wrote = TRUE]]
     ELSE /\ orders' = orders
          /\ req' = [req EXCEPT ![r] = Respond(r, 500, "PAYMENT_CREATION_FAILED")]
  /\ UNCHANGED <<ledger, webhookLogs>>

\* OrderStatus.create(initialStatus): the placeholder entry, no transaction_id
CreateInitialStatus(r) ==
  /\ req[r].kind = "create" /\ req[r].pc = "c_status"
  /\ ledger' = Append(ledger,
        [collect_id |-> req[r].ord, status |-> "pending",
         transaction_id |-> None, transaction_amount |-> NoAmount,
         payment_time |-> Tick(ledger), createdAt |-> Tick(ledger)])
  /\ req' = [req EXCEPT ![r] = Respond(r, 201, "CREATED")]
  /\ UNCHANGED <<orders, webhookLogs>>

InitCreate ==
  /\ orders = <<>>
  /\ ledger = <<>>
  /\ webhookLogs = <<>>
  /\ req = [r \in 1..MaxCreate |-> IdleReq]

NextCreate ==
  \E r \in Reqs :
    \/ StartCreate(r)
    \/ CreateFindOrder(r)
    \/ CreateVendorCall(r)
    \/ CreateSaveOrder(r)
    \/ CreateInitialStatus(r)

(***************************************************************************)
(* Status ledger: OrderStatus.upsertStatus                                 *)
(***************************************************************************)
\* the vendor status mapping of PaymentController.checkPaymentStatus
StatusMap(raw) ==
  IF raw = "SUCCESS" THEN "completed"
  ELSE IF raw = "FAILED" THEN "failed"
  ELSE "pending"

\* schema validation run by save(): status enum, transaction_amount min 0
ValidEntry(e) ==
  /\ e.status \in StatusEnum
  /\ e.transaction_amount = NoAmount \/ e.transaction_amount >= 0

\* an upsert that never finds the entry of the transaction
UpsertFindIdx_AlwaysNew(l, orderId, txn) == 0

\* findOne({collect_id, transaction_id}), skipped without a transaction_id:
\* the index of the matching entry, 0 for none
UpsertFindIdx(l, orderId, txn) ==
  IF txn # None /\ \E i \in Indexes(l) :
                     l[i].collect_id = orderId /\ l[i].transaction_id = txn
  THEN CHOOSE i \in Indexes(l) :
         /\ l[i].collect_id = orderId /\ l[i].transaction_id = txn
         /\ \A j \in Indexes(l) :
              (l[j].collect_id = orderId /\ l[j].transaction_id = txn) => i <= j
  ELSE 0

\* the document the handler holds after Object.assign / new this({...})
AssignedEntry(orderId, obs) ==
  [collect_id |-> orderId, status |-> obs.status,
   transaction_id |-> obs.transaction_id,
   transaction_amount |-> obs.transaction_amount,
   payment_time |-> obs.payment_time, createdAt |-> NoTime]

\* save() of the loaded document: only the paths whose value differs from
\* the loaded snapshot are written to the stored entry
SavedEntry(cur, snapStatus, snapAmount, snapTime, obs) ==
  [cur EXCEPT
     !.status = IF obs.status # snapStatus THEN obs.status ELSE @,
     !.transaction_amount =
        IF obs.transaction_amount # snapAmount THEN obs.transaction_amount ELSE @,
     !.payment_time =
        IF obs.payment_time # snapTime THEN obs.payment_time ELSE @]

\* a save step that writes the document without validating it
UpsertWrite_NoValidation(l, orderId, obs, ex, snapStatus, snapAmount, snapTime, now) ==
  IF ex # 0
  THEN [l EXCEPT ![ex] = SavedEntry(l[ex], snapStatus, snapAmount, snapTime, obs)]
  ELSE Append(l, [AssignedEntry(orderId, obs) EXCEPT !.createdAt = now])

\* the ledger after the save step of upsertStatus; ex is the entry found
\* (0: none), now the clock reading that stamps an inserted entry; a
\* validation error leaves the ledger as it is
UpsertWrite(l, orderId, obs, ex, snapStatus, snapAmount, snapTime, now) ==
  IF ~ValidEntry(AssignedEntry(orderId, obs)) THEN l
  ELSE IF ex # 0
    THEN [l EXCEPT ![ex] =
            SavedEntry(l[ex], snapStatus, snapAmount, snapTime, obs)]
  ELSE Append(l, [AssignedEntry(orderId, obs) EXCEPT !.createdAt = now])

\* upsertStatus run without interleaving
UpsertStatus(l, orderId, obs) ==
  LET ex == UpsertFindIdx(l, orderId, obs.transaction_id)
  IN  UpsertWrite(l, orderId, obs, ex,
                  IF ex = 0 THEN None ELSE l[ex].status,
                  IF ex = 0 THEN NoAmount ELSE l[ex].transaction_amount,
                  IF ex = 0 THEN NoTime ELSE l[ex].payment_time,
                  Tick(l))

\* the observation a request carries (statusData)
ObsOf(rq) ==
  [status |-> rq.raw, transaction_id |-> rq.txn, transaction_amount |-> rq.amt,
   payment_time |-> rq.pt]

\* the create-payment endpoint alone, from an empty store
SpecCreate == InitCreate /\ [][NextCreate]_vars

\* the request passed validation and the school check of the route
Admitted(r) ==
  /\ ValidCreateBody(req[r].amt)
  /\ AuthorizeSchool([role |-> req[r].role, school_id |-> req[r].usch],
                     req[r].sch) = "next"

\* C5: a create-payment call received when an order with its custom_order_id
\* already exists is answered 400 DUPLICATE_ORDER_ID and writes nothing, and
\* no two Order records ever share a custom_order_id.
C5_DuplicateOrderRejected ==
  /\ \A i, j \in Indexes(orders) :
        orders[i].custom_order_id = orders[j].custom_order_id => i = j
  /\ \A r \in Reqs :
        (req[r].kind = "create" /\ req[r].pc = "done" /\ req[r].seen /\ Admitted(r))
          => /\ req[r].code = 400
             /\ req[r].tag = "DUPLICATE_ORDER_ID"
             /\ ~req[r].wrote

\* a second admitted call for an existing custom_order_id has been answered
C5_Witness ==
  \E r \in Reqs :
    /\ req[r].kind = "create" /\ req[r].pc = "done" /\ req[r].seen /\ Admitted(r)
    /\ req[r].tag = "DUPLICATE_ORDER_ID"
    /\ \E i \in Indexes(orders) : orders[i].custom_order_id = req[r].cid


\* an order as an accepted create-payment request stores it
FreshOrder(cid, crq) ==
  [custom_order_id |-> cid, school_id |-> "SCH001", collect_request_id |-> crq,
   amount |-> 100, callback_url |-> "cb", status |-> "pending"]

\* the initial ledger entry of an order
\* (payment_time: new Date(); order i and its entry are created at tick i)
Placeholder(orderId) ==
  [collect_id |-> orderId, status |-> "pending", transaction_id |-> None,
   transaction_amount |-> NoAmount, payment_time |-> orderId,
   createdAt |-> orderId]

(***************************************************************************)
(* Webhook ingestion: WebhookController.processWebhook                     *)
(***************************************************************************)
\* the payloads a delivery may carry (flat shape)
WebhookPayloads ==
  [cid : {"ORD1"}, crq : {0}, txn : {"T1", None}, raw : RawStatuses, amt : {100},
   pt : {1}]
    \cup {[cid |-> "ORD2", crq |-> 0, txn |-> "T1", raw |-> "completed",
           amt |-> 100, pt |-> 1],
          [cid |-> None, crq |-> 0, txn |-> "T1", raw |-> "completed",
           amt |-> 100, pt |-> 1],
          [cid |-> "ORD2", crq |-> 1, txn |-> "T1", raw |-> "completed",
           amt |-> 100, pt |-> 1],
          [cid |-> "ORD1", crq |-> 0, txn |-> "T1", raw |-> "refunded",
           amt |-> 100, pt |-> 1]}

\* the payloads used for deliveries through the router
RoutePayloads ==
  {[cid |-> "ORD1", crq |-> 0, txn |-> "T1", raw |-> "completed", amt |-> 100,
    pt |-> 1]}

\* webhookLogData._id as the catch block reads it: webhookLogData is the
\* plain object built by the handler, createLog never assigns an _id to it
WebhookLogDataId(rq) == 0

NewLog(r, status, msg) ==
  [delivery |-> r, processing_status |-> status, processing_message |-> msg,
   retries |-> 0, order_id |-> 0]

MarkAsProcessed(log, msg) ==
  [log EXCEPT !.processing_status = "processed", !.processing_message = msg]

MarkAsFailed(log, msg) ==
  [log EXCEPT !.processing_status = "failed", !.processing_message = msg,
              !.retries = @ + 1]

\* a catch block that records nothing
CatchProcessWebhook_NoLog(logs, r, msg) == logs

\* the catch block of processWebhook: mark the log of webhookLogData._id as
\* failed when that id is set, otherwise create a new log in state failed
CatchProcessWebhook(logs, r, msg) ==
  IF WebhookLogDataId(req[r]) # 0
  THEN [logs EXCEPT ![WebhookLogDataId(req[r])] = MarkAsFailed(@, msg)]
  ELSE Append(logs, NewLog(r, "failed", msg))

\* processing threw msg: catch block, then 400
WebhookFail(r, rq, msg) ==
  /\ webhookLogs' = CatchProcessWebhook(webhookLogs, r, msg)
  /\ req' = [req EXCEPT ![r] =
       [rq EXCEPT !.pc = "done", !.code = 400,
                  !.tag = "WEBHOOK_PROCESSING_FAILED", !.err = msg]]

\* processWebhook up to its first await.  bound tells whether the method runs
\* with its controller as receiver; without it this.parseWebhookPayload
\* throws a TypeError inside the try block
ProcessWebhook(r, kind, bound, payloads) ==
  /\ CanStart(r)
  /\ \E p \in payloads :
       LET rq == [req[r] EXCEPT !.kind = kind, !.cid = p.cid, !.crq = p.crq,
                                !.txn = p.txn, !.raw = p.raw, !.amt = p.amt,
                                !.pt = PaymentTimeOf(p.pt, Tick(ledger))]
       IN  IF ~bound
           THEN WebhookFail(r, rq, "TypeError")
           ELSE /\ webhookLogs' = Append(webhookLogs, NewLog(r, "queued", None))
                /\ req' = [req EXCEPT ![r] =
                     [rq EXCEPT !.pc = "w_find", !.log = Len(webhookLogs) + 1]]
  /\ UNCHANGED <<orders, ledger>>

\* webhookController.processWebhook(req, res) called on the controller
StartWebhook(r) == ProcessWebhook(r, "webhook", TRUE, WebhookPayloads)

\* router.post('/webhook', asyncHandler(webhookController.processWebhook)):
\* the method is passed detached from the controller
RouteWebhook(r) == ProcessWebhook(r, "route", FALSE, RoutePayloads)

\* processWebhookData: identifier check, order lookup, webhookLog.save()
WebhookFindOrder(r) ==
  /\ req[r].kind = "webhook" /\ req[r].pc = "w_find"
  /\ LET rq == req[r]
         order == IF rq.cid # None THEN FindByCustomOrderId(rq.cid)
                  ELSE FindByCollectRequestId(rq.crq)
     IN  IF rq.cid = None /\ rq.crq = 0
           THEN WebhookFail(r, rq, "No order identifier found in webhook payload")
         ELSE IF order = 0
           THEN WebhookFail(r, rq, "Order not found for identifiers")
         ELSE /\ webhookLogs' = [webhookLogs EXCEPT ![rq.log].order_id = order]
              /\ req' = [req EXCEPT ![r] =
                   [rq EXCEPT !.ord = order, !.ordst = orders[order].status,
                              !.pc = IF rq.txn # None THEN "u_find" ELSE "u_save"]]
  /\ UNCHANGED <<orders, ledger>>

\* upsertStatus, first await: findOne({collect_id, transaction_id})
UpsertFind(r) ==
  /\ req[r].kind \in {"webhook", "poll"} /\ req[r].pc = "u_find"
  /\ LET ex == UpsertFindIdx(ledger, req[r].ord, req[r].txn)
     IN  req' = [req EXCEPT ![r] =
           [req[r] EXCEPT !.pc = "u_save", !.ex = ex,
              !.exst = IF ex = 0 THEN None ELSE ledger[ex].status,
              !.examt = IF ex = 0 THEN NoAmount ELSE ledger[ex].transaction_amount,
              !.expt = IF ex = 0 THEN NoTime ELSE ledger[ex].payment_time]]
  /\ UNCHANGED <<orders, ledger, webhookLogs>>

\* upsertStatus, second await: save().  A ValidationError fails the webhook;
\* the status query swallows it
UpsertSave(r) ==
  /\ req[r].kind \in {"webhook", "poll"} /\ req[r].pc = "u_save"
  /\ LET rq == req[r]
         ok == ValidEntry(AssignedEntry(rq.ord, ObsOf(rq)))
     IN  /\ ledger' = UpsertWrite(ledger, rq.ord, ObsOf(rq), rq.ex, rq.exst,
                               rq.examt, rq.expt, Tick(ledger))
         /\ IF ok
            THEN /\ req' = [req EXCEPT ![r] =
                      [rq EXCEPT !.wrote = TRUE, !.wst = rq.raw,
                         !.pc = IF rq.kind = "webhook" THEN "w_final" ELSE "p_latest"]]
                 /\ webhookLogs' = webhookLogs
            ELSE IF rq.kind = "webhook"
              THEN WebhookFail(r, rq, "OrderStatus validation failed")
            ELSE /\ req' = [req EXCEPT ![r] = [rq EXCEPT !.pc = "p_latest"]]
                 /\ webhookLogs' = webhookLogs
  /\ UNCHANGED orders

\* order.updateStatus for a final status (the status path is written when it
\* differs from the loaded order), markAsProcessed, 200
WebhookFinish(r) ==
  /\ req[r].kind = "webhook" /\ req[r].pc = "w_final"
  /\ LET rq == req[r] IN
       /\ orders' = IF rq.raw \in FinalStatuses /\ rq.raw # rq.ordst
                    THEN [orders EXCEPT ![rq.ord].status = rq.raw]
                    ELSE orders
       /\ webhookLogs' = [webhookLogs EXCEPT ![rq.log] =
            MarkAsProcessed(@, "Webhook processed successfully")]
       /\ req' = [req EXCEPT ![r] = Respond(r, 200, "OK")]
  /\ UNCHANGED ledger

(***************************************************************************)
(* GET /transaction-status/:custom_order_id                                *)
(***************************************************************************)
\* the answers of the vendor's collect-request status endpoint
PollAnswers ==
  [txn : {"T1"}, raw : RawStatuses, amt : {100}, pt : {1}]
    \cup {[txn |-> None, raw |-> "pending", amt |-> 100, pt |-> 1]}

\* a school check that lets callers without a school_id pass
SchoolDenied_Lenient(user, schoolId) ==
  user.role # "admin" /\ user.school_id # None /\ user.school_id # schoolId

\* the controllers' school check for non-admin callers
SchoolDenied(user, schoolId) ==
  user.role # "admin" /\ user.school_id # schoolId

UserOf(rq) == [role |-> rq.role, school_id |-> rq.usch]

StartPoll(r, users, cids) ==
  /\ CanStart(r)
  /\ \E u \in users, cid \in cids :
       req' = [req EXCEPT ![r] =
         [req[r] EXCEPT !.kind = "poll", !.pc = "p_find", !.cid = cid,
                        !.role = u.role, !.usch = u.school_id]]
  /\ UNCHANGED <<orders, ledger, webhookLogs>>

\* order lookup, 404, school check, 403
PollFindOrder(r) ==
  /\ req[r].kind = "poll" /\ req[r].pc = "p_find"
  /\ LET order == FindByCustomOrderId(req[r].cid) IN
       req' = [req EXCEPT ![r] =
         IF order = 0 THEN Respond(r, 404, "ORDER_NOT_FOUND")
         ELSE IF SchoolDenied(UserOf(req[r]), orders[order].school_id)
           THEN [Respond(r, 403, "SCHOOL_ACCESS_DENIED") EXCEPT !.ord = order]
         ELSE [req[r] EXCEPT !.ord = order,
                 !.pc = IF orders[order].collect_request_id # 0
                        THEN "p_vendor" ELSE "p_latest"]]
  /\ UNCHANGED <<orders, ledger, webhookLogs>>

\* vendorClient.getCollectRequest: an answer, or an error that is swallowed
PollVendor(r) ==
  /\ req[r].kind = "poll" /\ req[r].pc = "p_vendor"
  /\ \/ req' = [req EXCEPT ![r] = [req[r] EXCEPT !.pc = "p_latest", !.vcall = TRUE]]
     \/ \E a \in PollAnswers :
          req' = [req EXCEPT ![r] =
            [req[r] EXCEPT !.vcall = TRUE, !.txn = a.txn, !.raw = a.raw,
                           !.amt = a.amt,
                           !.pt = PaymentTimeOf(a.pt, Tick(ledger)),
                           !.pc = IF a.txn # None THEN "u_find" ELSE "u_save"]]
  /\ UNCHANGED <<orders, ledger, webhookLogs>>

\* entry i sorts before entry j under sort({payment_time: -1, createdAt: -1})
SortsBefore(l, i, j) ==
  \/ l[i].payment_time > l[j].payment_time
  \/ /\ l[i].payment_time = l[j].payment_time
     /\ l[i].createdAt > l[j].createdAt

\* a lookup that sorts by createdAt alone
FindLatestByOrderId_ByCreatedAt(l, orderId) ==
  {i \in Indexes(l) :
     /\ l[i].collect_id = orderId
     /\ \A j \in Indexes(l) :
          l[j].collect_id = orderId => l[j].createdAt <= l[i].createdAt}

\* findOne({collect_id}).sort({payment_time: -1, createdAt: -1}): the entries
\* that may come first (one, unless two entries tie on both keys)
FindLatestByOrderId(l, orderId) ==
  {i \in Indexes(l) :
     /\ l[i].collect_id = orderId
     /\ \A j \in Indexes(l) : l[j].collect_id = orderId => ~SortsBefore(l, j, i)}

\* the document findLatestByOrderId resolves to: an entry index, 0 for null
LatestOf(l, orderId) ==
  IF FindLatestByOrderId(l, orderId) = {} THEN {0}
  ELSE FindLatestByOrderId(l, orderId)

\* a status query that answers 500 when the vendor gave no usable status
PollLatest_Fatal(r) ==
  /\ req[r].kind = "poll" /\ req[r].pc = "p_latest"
  /\ \E i \in LatestOf(ledger, req[r].ord) :
       req' = [req EXCEPT ![r] =
         IF req[r].vcall /\ ~req[r].wrote
         THEN Respond(r, 500, "INTERNAL_ERROR")
         ELSE [Respond(r, 200, "OK") EXCEPT !.latest = i]]
  /\ UNCHANGED <<orders, ledger, webhookLogs>>

\* findLatestByOrderId and the 200 response; latest keeps the entry returned
PollLatest(r) ==
  /\ req[r].kind = "poll" /\ req[r].pc = "p_latest"
  /\ \E i \in LatestOf(ledger, req[r].ord) :
       req' = [req EXCEPT ![r] = [Respond(r, 200, "OK") EXCEPT !.latest = i]]
  /\ UNCHANGED <<orders, ledger, webhookLogs>>

(***************************************************************************)
(* GET /status/:collect_request_id (PaymentController.checkPaymentStatus)  *)
(***************************************************************************)
StartCheck(r, orderIds) ==
  /\ CanStart(r)
  /\ \E o \in orderIds :
       req' = [req EXCEPT ![r] =
         [req[r] EXCEPT !.kind = "check", !.pc = "k_vendor", !.ord = o]]
  /\ UNCHANGED <<orders, ledger, webhookLogs>>

\* OrderStatus.findOne({collect_id: order_id})
FindOneByOrder(l, orderId) ==
  IF \E i \in Indexes(l) : l[i].collect_id = orderId
  THEN CHOOSE i \in Indexes(l) :
         /\ l[i].collect_id = orderId
         /\ \A j \in Indexes(l) : l[j].collect_id = orderId => i <= j
  ELSE 0

\* paymentService.checkPaymentStatus, then the lookup of the order's entry
CheckVendorFind(r) ==
  /\ req[r].kind = "check" /\ req[r].pc = "k_vendor"
  /\ \/ req' = [req EXCEPT ![r] =
          [Respond(r, 500, "PAYMENT_STATUS_ERROR") EXCEPT !.vcall = TRUE]]
     \/ \E raw \in RawStatuses :
          LET ex == FindOneByOrder(ledger, req[r].ord) IN
          req' = [req EXCEPT ![r] =
            IF req[r].ord = 0 \/ ex = 0
            THEN [Respond(r, 200, "OK") EXCEPT !.vcall = TRUE, !.raw = raw]
            ELSE [req[r] EXCEPT !.vcall = TRUE, !.raw = raw, !.pc = "k_save",
                    !.ex = ex, !.exst = ledger[ex].status,
                    !.examt = ledger[ex].transaction_amount]]
  /\ UNCHANGED <<orders, ledger, webhookLogs>>

\* orderStatus.status = dbStatus; payment_time = new Date() when completed;
\* orderStatus.save()
CheckSave(r) ==
  /\ req[r].kind = "check" /\ req[r].pc = "k_save"
  /\ LET rq == req[r]
         dbStatus == StatusMap(rq.raw)
     IN  /\ ledger' = [ledger EXCEPT
                         ![rq.ex].status =
                            IF dbStatus # rq.exst THEN dbStatus ELSE @,
                         ![rq.ex].payment_time =
                            IF dbStatus = "completed" THEN Tick(ledger) ELSE @]
         /\ req' = [req EXCEPT ![r] =
              [Respond(r, 200, "OK") EXCEPT !.wrote = TRUE, !.wst = dbStatus]]
  /\ UNCHANGED <<orders, webhookLogs>>

(***************************************************************************)
(* Reconciliation: deliveries and polls racing on one existing order       *)
(***************************************************************************)
\* requests admitted in SpecRecon
MaxRecon == 2

\* the store after one accepted create-payment request for ORD1
InitRecon ==
  /\ orders = <<FreshOrder("ORD1", 1)>>
  /\ ledger = <<Placeholder(1)>>
  /\ webhookLogs = <<>>
  /\ req = [r \in 1..MaxRecon |-> IdleReq]

NextRecon ==
  \E r \in Reqs :
    \/ StartWebhook(r)
    \/ RouteWebhook(r)
    \/ WebhookFindOrder(r)
    \/ UpsertFind(r)
    \/ UpsertSave(r)
    \/ WebhookFinish(r)
    \/ StartPoll(r, {[role |-> "admin", school_id |-> None]}, {"ORD1"})
    \/ PollFindOrder(r)
    \/ PollVendor(r)
    \/ PollLatest(r)
    \/ StartCheck(r, {1})
    \/ CheckVendorFind(r)
    \/ CheckSave(r)

SpecRecon == InitRecon /\ [][NextRecon]_vars

\* the requests that are webhook deliveries
IsDelivery(r) == req[r].kind \in {"webhook", "route"}

\* the Delivery Records of delivery r
LogsOf(r) == {i \in Indexes(webhookLogs) : webhookLogs[i].delivery = r}

\* C1 as stated: a ledger entry with a transaction_id whose status is
\* terminal never gets a non-terminal status by a later poll or webhook.
C1_NoTerminalRegression ==
  [][\A i \in Indexes(ledger) :
       (ledger[i].transaction_id # None /\ ledger[i].status \in TerminalStatuses)
         => ledger'[i].status \in TerminalStatuses]_vars

\* C3 as stated: an order never has two ledger entries with the same
\* transaction_id, whatever the interleaving of concurrent upserts.
C3_OneEntryPerTransaction ==
  \A i, j \in Indexes(ledger) :
    (/\ ledger[i].collect_id = ledger[j].collect_id
     /\ ledger[i].transaction_id # None
     /\ ledger[i].transaction_id = ledger[j].transaction_id) => i = j

\* the delivery names a custom_order_id that no order has
Unresolvable(r) ==
  IsDelivery(r) /\ req[r].cid # None /\ FindByCustomOrderId(req[r].cid) = 0

\* C6: a handled webhook whose custom_order_id matches no order has a
\* Delivery Record in state failed whose message is the failure reason, and
\* the delivery wrote no Order and no ledger entry.
C6_UnresolvableWebhook ==
  \A r \in Reqs :
    (Unresolvable(r) /\ req[r].pc = "done")
      => /\ req[r].err # None
         /\ \E i \in LogsOf(r) :
              /\ webhookLogs[i].processing_status = "failed"
              /\ webhookLogs[i].processing_message = req[r].err
         /\ ~req[r].wrote
         /\ req[r].ord = 0

\* a delivery for the unknown ORD2 went through order resolution and failed
C6_Witness ==
  \E r \in Reqs :
    /\ req[r].kind = "webhook" /\ Unresolvable(r) /\ req[r].pc = "done"
    /\ req[r].err = "Order not found for identifiers"
    /\ \E i \in LogsOf(r) : webhookLogs[i].processing_status = "failed"

\* C7 as stated: every delivery has exactly one Delivery Record from the
\* moment processing starts, and once the handler has responded that record
\* is processed or failed, not queued.
C7_OneDeliveryRecord ==
  \A r \in Reqs :
    (IsDelivery(r) /\ req[r].pc # "idle")
      => /\ Cardinality(LogsOf(r)) = 1
         /\ req[r].pc = "done"
              => \A i \in LogsOf(r) : webhookLogs[i].processing_status # "queued"

\* C8 as stated: a handled webhook naming an existing order with a status of
\* the enumeration was applied (ledger written, record processed, 200), and
\* every other handled webhook was answered 400.
C8_WebhookApplied ==
  \A r \in Reqs :
    (IsDelivery(r) /\ req[r].pc = "done")
      => IF FindByCustomOrderId(req[r].cid) # 0 /\ req[r].raw \in StatusEnum
         THEN /\ req[r].code = 200
              /\ req[r].wrote
              /\ \E i \in LogsOf(r) : webhookLogs[i].processing_status = "processed"
         ELSE req[r].code = 400

\* the request carried a raw status to the ledger of an existing order
Delivered(r) ==
  \/ req[r].kind = "webhook" /\ req[r].ord # 0
  \/ req[r].kind = "poll" /\ req[r].raw # None
  \/ req[r].kind = "check" /\ req[r].ex # 0

\* C10 as stated: whichever path carries a raw vendor status to the ledger,
\* the status written is its mapping (SUCCESS completed, FAILED failed,
\* anything else pending).
C10_StatusMapped ==
  \A r \in Reqs :
    (req[r].pc = "done" /\ Delivered(r)) => req[r].wst = StatusMap(req[r].raw)

(***************************************************************************)
(* GET /transactions/school/:schoolId and the read-side school isolation   *)
(***************************************************************************)
\* middlewares and the school check of getSchoolTransactions
StartSchoolList(r) ==
  /\ CanStart(r)
  /\ \E u \in Users, sch \in Schools :
       LET rq == [req[r] EXCEPT !.kind = "school", !.sch = sch,
                                !.role = u.role, !.usch = u.school_id]
       IN  req' = [req EXCEPT ![r] =
             IF Authorize(u.role, {"admin", "school", "trustee"}) # "next"
               THEN [rq EXCEPT !.pc = "done", !.code = 403,
                               !.tag = "INSUFFICIENT_PERMISSIONS"]
             ELSE IF SchoolDenied(u, sch)
               THEN [rq EXCEPT !.pc = "done", !.code = 403,
                               !.tag = "SCHOOL_ACCESS_DENIED"]
             ELSE [rq EXCEPT !.pc = "s_agg"]]
  /\ UNCHANGED <<orders, ledger, webhookLogs>>

\* the aggregation over the orders of the school, 200
SchoolListAggregate(r) ==
  /\ req[r].kind = "school" /\ req[r].pc = "s_agg"
  /\ req' = [req EXCEPT ![r] =
       [Respond(r, 200, "OK") EXCEPT !.items =
          Cardinality({i \in Indexes(orders) : orders[i].school_id = req[r].sch})]]
  /\ UNCHANGED <<orders, ledger, webhookLogs>>

(***************************************************************************)
(* Read endpoints of the ObjectId-keyed variant                            *)
(***************************************************************************)
\* identities of the ObjectId-keyed variant (school_id optional for "user")
UsersB ==
  { [role |-> "admin", school_id |-> None],
    [role |-> "staff", school_id |-> "SCH001"],
    [role |-> "user", school_id |-> None] }

\* restrictTo(...roles): TRUE when the request passes
RestrictTo(role, roles) == role \in roles

\* checkSchoolAccess: TRUE when the request is refused
CheckSchoolAccessDenied(user, schoolId) ==
  /\ user.role # "admin"
  /\ schoolId # None /\ user.school_id # None /\ schoolId # user.school_id

\* GET /transaction-status/:custom_order_id, up to the controller
StartStatusB(r) ==
  /\ CanStart(r)
  /\ \E u \in UsersB, o \in Indexes(orders) :
       LET rq == [req[r] EXCEPT !.kind = "status_b", !.ord = o,
                                !.role = u.role, !.usch = u.school_id]
       IN  req' = [req EXCEPT ![r] =
             IF RestrictTo(u.role, {"admin", "trustee", "staff"})
               THEN [rq EXCEPT !.pc = "b_agg"]
               ELSE [rq EXCEPT !.pc = "done", !.code = 403, !.tag = "fail"]]
  /\ UNCHANGED <<orders, ledger, webhookLogs>>

\* PaymentController.getTransactionStatus: the aggregation and the answer
StatusBAggregate(r) ==
  /\ req[r].kind = "status_b" /\ req[r].pc = "b_agg"
  /\ req' = [req EXCEPT ![r] =
       IF FindOneByOrder(ledger, req[r].ord) = 0
         THEN Respond(r, 404, "fail")
         ELSE [Respond(r, 200, "success") EXCEPT !.seen = TRUE]]
  /\ UNCHANGED <<orders, ledger, webhookLogs>>

\* GET /transactions/school/:schoolId, up to the controller
StartSchoolListB(r) ==
  /\ CanStart(r)
  /\ \E u \in UsersB, sch \in Schools :
       LET rq == [req[r] EXCEPT !.kind = "school_b", !.sch = sch,
                                !.role = u.role, !.usch = u.school_id]
       IN  req' = [req EXCEPT ![r] =
             IF ~RestrictTo(u.role, {"admin", "trustee", "staff"})
               THEN [rq EXCEPT !.pc = "done", !.code = 403, !.tag = "fail"]
             ELSE IF CheckSchoolAccessDenied(u, sch)
               THEN [rq EXCEPT !.pc = "done", !.code = 403, !.tag = "fail"]
             ELSE [rq EXCEPT !.pc = "bl_agg"]]
  /\ UNCHANGED <<orders, ledger, webhookLogs>>

\* PaymentController.getTransactionsBySchool: the aggregation and the answer
SchoolListBAggregate(r) ==
  /\ req[r].kind = "school_b" /\ req[r].pc = "bl_agg"
  /\ req' = [req EXCEPT ![r] =
       [Respond(r, 200, "success") EXCEPT !.items =
          Cardinality({i \in Indexes(ledger) :
             orders[ledger[i].collect_id].school_id = req[r].sch})]]
  /\ UNCHANGED <<orders, ledger, webhookLogs>>

\* requests admitted in SpecRead
MaxRead == 2

\* the store after accepted create-payment requests of two schools
InitRead ==
  /\ orders = <<FreshOrder("ORD1", 1),
                [FreshOrder("ORD2", 2) EXCEPT !.school_id = "SCH002"]>>
  /\ ledger = <<Placeholder(1), Placeholder(2)>>
  /\ webhookLogs = <<>>
  /\ req = [r \in 1..MaxRead |-> IdleReq]

NextRead ==
  \E r \in Reqs :
    \/ StartSchoolList(r)
    \/ SchoolListAggregate(r)
    \/ StartPoll(r, Users, CustomIds)
    \/ PollFindOrder(r)
    \/ PollVendor(r)
    \/ UpsertFind(r)
    \/ UpsertSave(r)
    \/ PollLatest(r)
    \/ StartStatusB(r)
    \/ StatusBAggregate(r)
    \/ StartSchoolListB(r)
    \/ SchoolListBAggregate(r)

SpecRead == InitRead /\ [][NextRead]_vars

\* the school whose data the read request asks for, None when there is none
RequestedSchool(r) ==
  IF req[r].kind \in {"school", "school_b"} THEN req[r].sch
  ELSE IF req[r].kind = "poll" /\ FindByCustomOrderId(req[r].cid) # 0
    THEN orders[FindByCustomOrderId(req[r].cid)].school_id
  ELSE IF req[r].kind = "status_b" THEN orders[req[r].ord].school_id
  ELSE None

\* a finished read request of a non-admin caller for another school's data
ForeignRead(r) ==
  /\ req[r].pc = "done"
  /\ req[r].kind \in {"school", "school_b", "poll", "status_b"}
  /\ req[r].role # "admin"
  /\ RequestedSchool(r) # None
  /\ RequestedSchool(r) # req[r].usch

\* C9: a non-admin caller asking for the transaction list of a school, or the
\* status of an order of a school, other than the school_id of its identity
\* (an identity without school_id included) is answered with the
\* authorization failure 403, never with a successful response, and no vendor
\* call and no write are made for it.
C9_SchoolIsolation ==
  \A r \in Reqs :
    ForeignRead(r) => req[r].code = 403 /\ ~req[r].vcall /\ ~req[r].wrote

(***************************************************************************)
(* Helpers over the stored ledger                                          *)
(***************************************************************************)
\* the ledger entries of an order that carry a given transaction_id
EntriesOf(orderId, txn) ==
  {i \in Indexes(ledger) :
     ledger[i].collect_id = orderId /\ ledger[i].transaction_id = txn}

(***************************************************************************)
(* upsertStatus applied in sequence: observation A then B to the first     *)
(* order, B then A to the second, both orders freshly created              *)
(***************************************************************************)
\* valid observations: a status of the enumeration, an optional transaction_id
Observations ==
  [status : StatusEnum, transaction_id : TxnIds \cup {None},
   transaction_amount : Amounts, payment_time : {1}]

ObsReq(o, pc) ==
  [IdleReq EXCEPT !.kind = "obs", !.pc = pc, !.raw = o.status,
                  !.txn = o.transaction_id, !.amt = o.transaction_amount,
                  !.pt = o.payment_time]

InitMerge ==
  /\ orders = <<FreshOrder("ORD1", 1), FreshOrder("ORD2", 2)>>
  /\ ledger = <<Placeholder(1), Placeholder(2)>>
  /\ webhookLogs = <<>>
  /\ \E a, b \in Observations : req = <<ObsReq(a, "m0"), ObsReq(b, "m0")>>

\* A to order 1, B to order 2
MergeFirst ==
  /\ req[1].pc = "m0"
  /\ ledger' = UpsertStatus(UpsertStatus(ledger, 1, ObsOf(req[1])), 2, ObsOf(req[2]))
  /\ req' = [r \in Reqs |-> [req[r] EXCEPT !.pc = "m1"]]
  /\ UNCHANGED <<orders, webhookLogs>>

\* B to order 1, A to order 2
MergeSecond ==
  /\ req[1].pc = "m1"
  /\ ledger' = UpsertStatus(UpsertStatus(ledger, 1, ObsOf(req[2])), 2, ObsOf(req[1]))
  /\ req' = [r \in Reqs |-> [req[r] EXCEPT !.pc = "m2"]]
  /\ UNCHANGED <<orders, webhookLogs>>

NextMerge == MergeFirst \/ MergeSecond

SpecMerge == InitMerge /\ [][NextMerge]_vars

SameTransaction == req[1].txn # None /\ req[1].txn = req[2].txn

\* C2: the same observation with a transaction_id applied twice to a fresh
\* order leaves exactly one entry for that transaction_id, with the
\* observation's amount and status.
C2_IdempotentMerge ==
  (req[1].pc = "m2" /\ req[1].txn # None /\ ObsOf(req[1]) = ObsOf(req[2]))
    => /\ Cardinality(EntriesOf(1, req[1].txn)) = 1
       /\ \A i \in EntriesOf(1, req[1].txn) :
            /\ ledger[i].transaction_amount = req[1].amt
            /\ ledger[i].status = req[1].raw

\* a completed observation with a transaction_id has been applied twice
C2_Witness ==
  /\ req[1].pc = "m2" /\ req[1].txn # None /\ ObsOf(req[1]) = ObsOf(req[2])
  /\ req[1].raw = "completed"
  /\ \E i \in EntriesOf(1, req[1].txn) : ledger[i].transaction_amount = req[1].amt

\* C4: the merge rule is commutative: for two observations A and B of the
\* same order and transaction_id, A then B and B then A leave the entry of
\* the transaction with the same status.
C4_Commutative ==
  (req[1].pc = "m2" /\ SameTransaction)
    => \A i \in EntriesOf(1, req[1].txn), j \in EntriesOf(2, req[1].txn) :
         ledger[i].status = ledger[j].status

(***************************************************************************)
(* findLatestByOrderId over entries of distinct transactions               *)
(***************************************************************************)
\* the payment_time values an observation may carry, NoTime for none
LatestTimes == {NoTime, 1, 2, 3}

\* the observations applied in SpecLatest
LatestObservations ==
  [status : {"pending", "completed"}, transaction_id : TxnIds,
   transaction_amount : {100}, payment_time : LatestTimes]

\* one order with its placeholder, created at clock reading 1 or 2; two
\* observations wait to be applied
InitLatest ==
  /\ orders = <<FreshOrder("ORD1", 1)>>
  /\ \E t \in {1, 2} :
       ledger = <<[Placeholder(1) EXCEPT !.payment_time = t, !.createdAt = t]>>
  /\ webhookLogs = <<>>
  /\ \E a, b \in LatestObservations :
       req = <<ObsReq(a, "l_wait"), ObsReq(b, "l_wait")>>

\* upsertStatus(order, observation k) at a clock reading not before the last
\* insertion; payment_time defaults to that reading
LatestApply(k) ==
  /\ req[k].pc = "l_wait"
  /\ \A q \in Reqs : q < k => req[q].pc # "l_wait"
  /\ \E now \in {Tick(ledger) - 1, Tick(ledger)} :
       LET obs == [ObsOf(req[k]) EXCEPT
                     !.payment_time = PaymentTimeOf(req[k].pt, now)]
           ex == UpsertFindIdx(ledger, 1, obs.transaction_id)
       IN  /\ ledger' = UpsertWrite(ledger, 1, obs, ex,
                          IF ex = 0 THEN None ELSE ledger[ex].status,
                          IF ex = 0 THEN NoAmount ELSE ledger[ex].transaction_amount,
                          IF ex = 0 THEN NoTime ELSE ledger[ex].payment_time,
                          now)
           /\ req' = [req EXCEPT ![k] =
                [req[k] EXCEPT !.pc = "l_applied", !.wrote = TRUE,
                               !.ex = IF ex = 0 THEN Len(ledger) + 1 ELSE ex]]
  /\ UNCHANGED <<orders, webhookLogs>>

\* findLatestByOrderId(order) once both observations are applied; the entry
\* returned is kept in ord
LatestFind ==
  /\ \A q \in Reqs : req[q].pc = "l_applied"
  /\ \E i \in FindLatestByOrderId(ledger, 1) :
       req' = [q \in Reqs |-> [req[q] EXCEPT !.pc = "l_found", !.ord = i]]
  /\ UNCHANGED <<orders, ledger, webhookLogs>>

NextLatest ==
  \/ \E k \in Reqs : LatestApply(k)
  \/ LatestFind

SpecLatest == InitLatest /\ [][NextLatest]_vars

FallbackCase(r) ==
  /\ req[r].kind = "webhook" /\ req[r].pc = "done"
  /\ req[r].cid # None /\ FindByCustomOrderId(req[r].cid) = 0
  /\ req[r].crq # 0 /\ FindByCollectRequestId(req[r].crq) # 0
  /\ req[r].raw \in StatusEnum

\* C12: a webhook whose custom_order_id matches no order and whose
\* collect_request_id matches an existing order is resolved to that order and
\* applied: the order's ledger holds the observation and the answer is 200.
C12_FallbackToCollectRequestId ==
  \A r \in Reqs :
    FallbackCase(r)
      => /\ req[r].code = 200
         /\ req[r].ord = FindByCollectRequestId(req[r].crq)
         /\ EntriesOf(req[r].ord, req[r].txn) # {}

(***************************************************************************)
(* parseWebhookPayload: order_info.order_id of a nested payload            *)
(***************************************************************************)
\* longest order_id drawn
MaxLen == 3

\* the characters of an order_id; "/" is the separator
Chars == {"a", "b", "/"}

\* strings are sequences of characters; an optional string is the empty set
\* (null) or the set of one string
RECURSIVE StringsUpTo(_)
StringsUpTo(n) ==
  IF n = 0 THEN {<<>>}
  ELSE StringsUpTo(n - 1)
         \cup {Append(s, c) : s \in {t \in StringsUpTo(n - 1) : Len(t) = n - 1},
                              c \in Chars}

\* String.prototype.split('/'): the parts between the separators
RECURSIVE Split(_)
Split(s) ==
  IF \A k \in Indexes(s) : s[k] # "/" THEN <<s>>
  ELSE LET k == CHOOSE i \in Indexes(s) :
                  s[i] = "/" /\ \A j \in 1..(i - 1) : s[j] # "/"
       IN  <<SubSeq(s, 1, k - 1)>> \o Split(SubSeq(s, k + 1, Len(s)))

\* a parse that cuts at the first separator whatever the number of parts
ParseOrderId_FirstSeparator(orderId) ==
  IF orderId = {} \/ orderId = {<<>>}
    THEN [collect_request_id |-> {}, transaction_id |-> {}]
  ELSE LET parts == Split(CHOOSE s \in orderId : TRUE)
       IN  IF Len(parts) >= 2
           THEN [collect_request_id |-> {parts[1]}, transaction_id |-> {parts[2]}]
           ELSE [collect_request_id |-> orderId, transaction_id |-> {}]

\* the order_id branch of parseWebhookPayload: skipped for an absent or empty
\* order_id, two parts give collect_request_id and transaction_id, any other
\* number of parts gives the whole value as collect_request_id
ParseOrderId(orderId) ==
  IF orderId = {} \/ orderId = {<<>>}
    THEN [collect_request_id |-> {}, transaction_id |-> {}]
  ELSE LET parts == Split(CHOOSE s \in orderId : TRUE)
       IN  IF Len(parts) = 2
           THEN [collect_request_id |-> {parts[1]}, transaction_id |-> {parts[2]}]
           ELSE [collect_request_id |-> orderId, transaction_id |-> {}]

\* parseWebhookPayload of {order_info: {order_id}, payment_info:
\* {transaction_id}}: payment_info.transaction_id, when truthy, replaces the
\* transaction_id taken from order_id
ParseWebhookPayload(payload) ==
  LET p == ParseOrderId(payload.order_id)
  IN  [p EXCEPT !.transaction_id =
         IF payload.transaction_id \notin {{}, {<<>>}}
         THEN payload.transaction_id ELSE @]

\* nested payloads: order_id absent or a string, payment_info.transaction_id
\* absent or "b"
NestedPayloads ==
  [order_id : {{}} \cup {{s} : s \in StringsUpTo(MaxLen)},
   transaction_id : {{}, {<<"b">>}}]

InitParse ==
  /\ orders = <<>> /\ ledger = <<>> /\ webhookLogs = <<>>
  /\ \E p \in NestedPayloads :
       req = <<[kind |-> "parse", pc |-> "raw", payload |-> p,
                parsed |-> [collect_request_id |-> {}, transaction_id |-> {}]]>>

Parse ==
  /\ req[1].pc = "raw"
  /\ req' = [req EXCEPT ![1].pc = "parsed",
                        ![1].parsed = ParseWebhookPayload(req[1].payload)]
  /\ UNCHANGED <<orders, ledger, webhookLogs>>

NextParse == Parse

SpecParse == InitParse /\ [][NextParse]_vars

\* the positions of the separator in a string
Separators(s) == {k \in Indexes(s) : s[k] = "/"}

MaxLogs == 2

\* the retry counter is followed up to this value
RetryCap == 4

\* hasMaxRetriesReached(maxRetries = 3)
DefaultMaxRetries == 3

\* retryProcessing(): back to queued, one more retry
RetryProcessing(log) ==
  [log EXCEPT !.processing_status = "queued", !.retries = @ + 1]

\* hasMaxRetriesReached(maxRetries)
HasMaxRetriesReached(log, maxRetries) == log.retries >= maxRetries

InitDelivery ==
  /\ orders = <<>> /\ ledger = <<>> /\ webhookLogs = <<>>
  /\ req = <<>>

\* WebhookLog.createLog as processWebhook calls it: queued on arrival, or
\* failed from the catch block
DeliveryCreate ==
  /\ Len(webhookLogs) < MaxLogs
  /\ \/ webhookLogs' = Append(webhookLogs,
                         NewLog(Len(webhookLogs) + 1, "queued", None))
     \/ webhookLogs' = Append(webhookLogs,
                         NewLog(Len(webhookLogs) + 1, "failed", "Order not found"))
  /\ UNCHANGED <<orders, ledger, req>>

\* markAsProcessed on the queued record a processing run holds
DeliveryProcessed(i) ==
  /\ webhookLogs[i].processing_status = "queued"
  /\ webhookLogs' = [webhookLogs EXCEPT ![i] =
       MarkAsProcessed(@, "Webhook processed successfully")]
  /\ UNCHANGED <<orders, ledger, req>>

\* markAsFailed on the queued record a processing run holds
DeliveryFailed(i) ==
  /\ webhookLogs[i].processing_status = "queued"
  /\ webhookLogs[i].retries < RetryCap
  /\ webhookLogs' = [webhookLogs EXCEPT ![i] = MarkAsFailed(@, "Order not found")]
  /\ UNCHANGED <<orders, ledger, req>>

\* retryProcessing called on a record: the method looks neither at the
\* record's status nor at hasMaxRetriesReached
DeliveryRetry(i) ==
  /\ webhookLogs[i].retries < RetryCap
  /\ webhookLogs' = [webhookLogs EXCEPT ![i] = RetryProcessing(@)]
  /\ UNCHANGED <<orders, ledger, req>>

NextDelivery ==
  \/ DeliveryCreate
  \/ \E i \in Indexes(webhookLogs) :
       \/ DeliveryProcessed(i)
       \/ DeliveryFailed(i)
       \/ DeliveryRetry(i)

SpecDelivery == InitDelivery /\ [][NextDelivery]_vars

\* C14: the processing status of a Delivery Record only moves queued to
\* processed, queued to failed, or failed to queued; a processed record
\* never becomes queued or failed again.
C14_DeliveryTransitions ==
  [][\A i \in Indexes(webhookLogs) :
       LET old == webhookLogs[i].processing_status
           new == webhookLogs'[i].processing_status
       IN  \/ new = old
           \/ old = "queued" /\ new \in {"processed", "failed"}
           \/ old = "failed" /\ new = "queued"]_vars

\* C15: a failed Delivery Record whose retry counter has reached the maximum
\* stays failed and keeps its counter, whatever is called on it.
C15_RetriesBounded ==
  [][\A i \in Indexes(webhookLogs) :
       (/\ webhookLogs[i].processing_status = "failed"
        /\ HasMaxRetriesReached(webhookLogs[i], DefaultMaxRetries))
         => /\ webhookLogs'[i].processing_status = "failed"
            /\ webhookLogs'[i].retries = webhookLogs[i].retries]_vars

\* C16: a webhook whose processing threw has its Delivery Record in state
\* failed with the exception message as processing message and the retry
\* counter incremented by one.
C16_FailedOnException ==
  \A r \in Reqs :
    (IsDelivery(r) /\ req[r].pc = "done" /\ req[r].code = 400)
      => /\ LogsOf(r) # {}
         /\ \A i \in LogsOf(r) :
              /\ webhookLogs[i].processing_status = "failed"
              /\ webhookLogs[i].processing_message = req[r].err
              /\ webhookLogs[i].retries = 1

(***************************************************************************)
(* Order.status, the cached status                                         *)
(***************************************************************************)
\* request r ran upsertStatus successfully and no other request wrote or is
\* still running
OnlyUpsert(r) ==
  /\ req[r].kind \in {"webhook", "poll"} /\ req[r].pc = "done" /\ req[r].wrote
  /\ \A q \in Reqs \ {r} : req[q].pc \in {"idle", "done"} /\ ~req[q].wrote

\* C17: after a successful upsertStatus from the poll path or the webhook
\* path has completed, the owning Order's cached status equals the status of
\* the resulting ledger entry.
C17_CachedStatusFollowsUpsert ==
  \A r \in Reqs :
    OnlyUpsert(r) => orders[req[r].ord].status = req[r].wst

\* C18: the last step of webhook processing leaves the Order's cached status
\* equal to the applied status when that status is terminal (completed,
\* failed, cancelled, refunded), and unchanged when it is not.
C18_TerminalUpdatesCache ==
  [][\A r \in Reqs :
       (req[r].kind = "webhook" /\ req[r].pc = "w_final" /\ req'[r].pc = "done")
         => IF req[r].raw \in TerminalStatuses
            THEN orders'[req[r].ord].status = req[r].raw
            ELSE orders'[req[r].ord].status = orders[req[r].ord].status]_vars

(***************************************************************************)
(* The vendor HTTP clients: VendorClient and PaymentService                *)
(***************************************************************************)
\* retryWithBackoff(operation, 3, 1000, 5000) as PaymentService calls it
ServiceMaxRetries == 3
ServiceBaseDelay == 1000
ServiceMaxDelay == 5000

\* what one HTTP attempt may end in
HttpOutcomes == {"2xx", "4xx", "5xx", "network", "timeout"}

\* the two clients and their two calls
VendorClients == {"VendorClient", "PaymentService"}
VendorOps == {"createCollectRequest", "checkStatus"}

RECURSIVE Pow2(_)
Pow2(n) == IF n = 0 THEN 1 ELSE 2 * Pow2(n - 1)

Min(a, b) == IF a <= b THEN a ELSE b

\* a delay that is not capped
DelayTime_Uncapped(attempt, baseDelay, maxDelay) == baseDelay * Pow2(attempt)

\* delayTime = Math.min(baseDelay * Math.pow(2, attempt), maxDelay)
DelayTime(attempt, baseDelay, maxDelay) == Min(baseDelay * Pow2(attempt), maxDelay)

\* the AppError statusCode VendorClient throws for a failed attempt
VendorErrorStatus(outcome) ==
  IF outcome = "4xx" THEN 400 ELSE 502

IdleCall ==
  [kind |-> "vendor", pc |-> "idle", client |-> None, op |-> None,
   attempt |-> 0, hist |-> <<>>, waited |-> 0, result |-> None,
   status |-> 0, code |-> None]

InitVendor ==
  /\ orders = <<>> /\ ledger = <<>> /\ webhookLogs = <<>>
  /\ req = <<IdleCall>>

\* the call is made; VendorClient signs first and throws VENDOR_SIGN_ERROR
\* when signing fails
VendorStart ==
  /\ req[1].pc = "idle"
  /\ \E c \in VendorClients, o \in VendorOps, signed \in BOOLEAN :
       req' = [req EXCEPT ![1] =
         IF c = "VendorClient" /\ ~signed
         THEN [@ EXCEPT !.client = c, !.op = o, !.pc = "done",
                        !.result = "thrown", !.status = 500,
                        !.code = "VENDOR_SIGN_ERROR"]
         ELSE [@ EXCEPT !.client = c, !.op = o, !.pc = "call"]]
  /\ UNCHANGED <<orders, ledger, webhookLogs>>

\* retryWithBackoff's catch block: another attempt follows any error until
\* attempt reaches maxRetries
RetryAfter(outcome, attempt) == attempt < ServiceMaxRetries

\* one HTTP attempt and what the client does with its outcome
VendorAttempt ==
  /\ req[1].pc = "call"
  /\ \E out \in HttpOutcomes :
       LET rq == [req[1] EXCEPT !.hist = Append(@, out)] IN
       req' = [req EXCEPT ![1] =
         IF out = "2xx"
           THEN [rq EXCEPT !.pc = "done",
                   !.result = IF rq.client = "PaymentService"
                              THEN "success_true_data" ELSE "response_data"]
         ELSE IF rq.client = "VendorClient"
           THEN [rq EXCEPT !.pc = "done", !.result = "thrown",
                           !.status = VendorErrorStatus(out),
                           !.code = IF out \in {"4xx", "5xx"}
                                    THEN "VENDOR_API_ERROR"
                                    ELSE "VENDOR_NETWORK_ERROR"]
         ELSE IF RetryAfter(out, rq.attempt)
           THEN [rq EXCEPT !.pc = "delay"]
         ELSE [rq EXCEPT !.pc = "done", !.result = "success_false_error",
                         !.status = IF out = "4xx" THEN 400 ELSE 500]]
  /\ UNCHANGED <<orders, ledger, webhookLogs>>

\* await delay(delayTime), then the next attempt
VendorDelay ==
  /\ req[1].pc = "delay"
  /\ req' = [req EXCEPT ![1] =
       [@ EXCEPT !.pc = "call", !.attempt = @ + 1,
                 !.waited = @ + DelayTime(req[1].attempt, ServiceBaseDelay,
                                          ServiceMaxDelay)]]
  /\ UNCHANGED <<orders, ledger, webhookLogs>>

NextVendor == VendorStart \/ VendorAttempt \/ VendorDelay

SpecVendor == InitVendor /\ [][NextVendor]_vars

\* the outcome of the attempt just made
LastOutcome(rq) == rq.hist[Len(rq.hist)]

\* C19: a vendor call is attempted again only after a transient failure
\* (network error, timeout, 5xx); after a 4xx answer the call ends with that
\* one attempt.
C19_NoRetryOnClientError ==
  \A r \in Reqs :
    /\ req[r].pc = "delay"
         => LastOutcome(req[r]) \in {"5xx", "network", "timeout"}
    /\ \A k \in Indexes(req[r].hist) :
         req[r].hist[k] = "4xx" => k = Len(req[r].hist)

\* C20: a finished vendor call threw only for a configuration error; after a
\* vendor-side failure it returned {success: false, error}, after a 2xx
\* answer {success: true, data}.
C20_ClientNeverThrows ==
  \A r \in Reqs :
    req[r].pc = "done"
      => IF req[r].hist = <<>> THEN req[r].code = "VENDOR_SIGN_ERROR"
         ELSE IF LastOutcome(req[r]) = "2xx"
           THEN req[r].result = "success_true_data"
         ELSE req[r].result = "success_false_error"

(***************************************************************************)
(* Rejected create-payment requests                                        *)
(***************************************************************************)
\* the request was refused for its input, for an existing custom_order_id,
\* or because its insert lost against another request's order
RejectedCreate(r) ==
  /\ req[r].kind = "create" /\ req[r].pc = "done"
  /\ req[r].tag \in {"VALIDATION_ERROR", "DUPLICATE_ORDER_ID",
                     "PAYMENT_CREATION_FAILED"}

\* C21: a create-payment request rejected for invalid input or for a
\* duplicate custom_order_id, the loser of two concurrent requests with the
\* same custom_order_id included, sent no vendor collect request and wrote no
\* Order and no ledger entry.
C21_RejectedNoSideEffects ==
  \A r \in Reqs :
    RejectedCreate(r)
      => /\ ~req[r].vcall
         /\ ~req[r].wrote
         /\ \A i \in Indexes(ledger) : ledger[i].collect_id # req[r].ord

(***************************************************************************)
(* POST /create-payment of the ObjectId-keyed variant, and permanence      *)
(***************************************************************************)
\* validation of PaymentController.createPayment, up to order.save()
StartCreateB(r) ==
  /\ CanStart(r)
  /\ \E amt \in CreateAmounts :
       LET rq == [req[r] EXCEPT !.kind = "create_b", !.amt = amt,
                                !.sch = "SCH001"]
       IN  req' = [req EXCEPT ![r] =
             IF amt <= 0
             THEN [rq EXCEPT !.pc = "done", !.code = 400, !.tag = "fail"]
             ELSE [rq EXCEPT !.pc = "b_save"]]
  /\ UNCHANGED <<orders, ledger, webhookLogs>>

\* the order is created in the database first
CreateBSaveOrder(r) ==
  /\ req[r].kind = "create_b" /\ req[r].pc = "b_save"
  /\ orders' = Append(orders,
        [custom_order_id |-> None, school_id |-> req[r].sch,
         collect_request_id |-> 0, amount |-> NoAmount, callback_url |-> None,
         status |-> None])
  /\ req' = [req EXCEPT ![r] =
       [req[r] EXCEPT !.pc = "b_vendor", !.ord = Len(orders) + 1, !.wrote = TRUE]]
  /\ UNCHANGED <<ledger, webhookLogs>>

\* a handler that deletes the order when the vendor call has failed
OrdersAfterVendorFailure_Rollback(os, ord) ==
  [i \in 1..(Len(os) - 1) |-> IF i < ord THEN os[i] ELSE os[i + 1]]

\* "If payment API fails, we should log but not delete the order"
OrdersAfterVendorFailure(os, ord) == os

\* signCreateCollectRequest, paymentService.createCollectRequest and the
\* AppError thrown for a result without success
CreateBVendor(r) ==
  /\ req[r].kind = "create_b" /\ req[r].pc = "b_vendor"
  /\ \E out \in VendorOutcomes \cup {"sign_error"} :
       IF out = "ok"
       THEN /\ req' = [req EXCEPT ![r] =
                 [req[r] EXCEPT !.pc = "b_status", !.vcall = TRUE, !.crq = r]]
            /\ orders' = orders
       ELSE /\ req' = [req EXCEPT ![r] =
                 [req[r] EXCEPT !.pc = "done", !.tag = "fail",
                    !.vcall = (out # "sign_error"), !.err = out,
                    !.code = IF out = "client_error" THEN 400 ELSE 500]]
            /\ orders' = OrdersAfterVendorFailure(orders, req[r].ord)
  /\ UNCHANGED <<ledger, webhookLogs>>

\* the initial OrderStatus record (pending, transaction_amount 0, no
\* payment_time), 201
CreateBInitialStatus(r) ==
  /\ req[r].kind = "create_b" /\ req[r].pc = "b_status"
  /\ ledger' = Append(ledger,
        [collect_id |-> req[r].ord, status |-> "pending",
         transaction_id |-> None, transaction_amount |-> 0,
         payment_time |-> NoTime, createdAt |-> Tick(ledger)])
  /\ req' = [req EXCEPT ![r] = Respond(r, 201, "success")]
  /\ UNCHANGED <<orders, webhookLogs>>

\* requests admitted in SpecPerm
MaxPerm == 2

\* the deliveries of SpecPerm: one that completes the stored order, one with
\* a status outside the enumeration
StartWebhookPerm(r) ==
  ProcessWebhook(r, "webhook", TRUE,
    {p \in WebhookPayloads :
       p.cid = "ORD1" /\ p.txn = "T1" /\ p.raw \in {"completed", "SUCCESS"}})

InitPerm ==
  /\ orders = <<FreshOrder("ORD1", 1)>>
  /\ ledger = <<Placeholder(1)>>
  /\ webhookLogs = <<>>
  /\ req = [r \in 1..MaxPerm |-> IdleReq]

\* every operation that touches orders or the ledger
NextPerm ==
  \E r \in Reqs :
    \/ StartCreate(r)
    \/ CreateFindOrder(r)
    \/ CreateVendorCall(r)
    \/ CreateSaveOrder(r)
    \/ CreateInitialStatus(r)
    \/ StartCreateB(r)
    \/ CreateBSaveOrder(r)
    \/ CreateBVendor(r)
    \/ CreateBInitialStatus(r)
    \/ StartWebhookPerm(r)
    \/ WebhookFindOrder(r)
    \/ UpsertFind(r)
    \/ UpsertSave(r)
    \/ WebhookFinish(r)
    \/ StartPoll(r, {[role |-> "admin", school_id |-> None]}, {"ORD1"})
    \/ PollFindOrder(r)
    \/ PollVendor(r)
    \/ PollLatest(r)
    \/ StartCheck(r, {1})
    \/ CheckVendorFind(r)
    \/ CheckSave(r)

SpecPerm == InitPerm /\ [][NextPerm]_vars

\* the fields of an order that identify it
Identity(o) ==
  <<o.custom_order_id, o.school_id, o.amount, o.collect_request_id,
    o.callback_url>>

\* C22: no step removes an Order or a ledger entry, and an Order's identity
\* fields never change after creation; in particular the Order saved before
\* a vendor call that fails is still there when the request has ended.
C22_Permanence ==
  [][/\ Len(orders') >= Len(orders)
     /\ Len(ledger') >= Len(ledger)
     /\ \A i \in Indexes(orders) : Identity(orders'[i]) = Identity(orders[i])
     /\ \A i \in Indexes(ledger) : ledger'[i].collect_id = ledger[i].collect_id
     /\ \A r \in Reqs :
          (req[r].pc = "b_vendor" /\ req'[r].pc = "done")
            => /\ req[r].ord \in Indexes(orders')
               /\ Identity(orders'[req[r].ord]) = Identity(orders[req[r].ord])]_vars

\* an order was saved, its vendor call failed, and the order is still stored
C22_Witness ==
  \E r \in Reqs :
    /\ req[r].kind = "create_b" /\ req[r].pc = "done" /\ req[r].wrote
    /\ req[r].err = "server_error" /\ req[r].code = 500
    /\ req[r].ord \in Indexes(orders)
    /\ orders[req[r].ord].school_id = req[r].sch
    /\ orders[req[r].ord].custom_order_id = None

(***************************************************************************)
(* Signing of vendor requests                                              *)
(***************************************************************************)
\* clock readings, in half seconds
MaxClock == 3

\* Date.now() in milliseconds at clock reading t
NowMs(t) == t * 500

\* a claim the token does not carry
NoClaim == -1

\* pgJwtSecret: process.env.PG_KEY || 'fallback-pg-secret-change-in-production'
PgJwtSecret(pgKey) ==
  IF pgKey = None THEN "fallback-pg-secret-change-in-production" ELSE pgKey

\* jwt.sign: the token is determined by its claims and the key (HS256);
\* a signer's result is the set of tokens it returns, empty when it throws
JwtSign(body, iat, exp, key) ==
  {[body |-> body, iat |-> iat, exp |-> exp, key |-> key]}

\* signVendorPayload: noTimestamp, no expiry, config.pgJwtSecret
SignVendorPayload(payload, pgKey, t) ==
  JwtSign(payload, NoClaim, NoClaim, PgJwtSecret(pgKey))

\* PaymentJWTService.signCreateCollectRequest / signStatusCheck:
\* iat: Math.floor(Date.now() / 1000), expiresIn: '1h';
\* throws 'PG_KEY is not configured' without a key
PaymentJWTSign(payload, pgKey, t) ==
  IF pgKey = None THEN {}
  ELSE LET iat == NowMs(t) \div 1000
       IN  JwtSign(payload, iat, iat + 3600, pgKey)

\* the payloads a signer is called with: {school_id, amount, callback_url}
\* of a create-collect-request, {school_id, collect_request_id} of a status
\* request
PayloadsOf(signer) ==
  LET createPayloads ==
        [school_id : {"SCH001"}, amount : {100, 200}, callback_url : {"cb"}]
      statusPayloads ==
        [school_id : {"SCH001"}, collect_request_id : {1, 2}]
  IN  CASE signer = "signVendorPayload" -> createPayloads \cup statusPayloads
        [] signer = "signCreateCollectRequest" -> createPayloads
        [] signer = "signStatusCheck" -> statusPayloads

SignWith(signer, payload, pgKey, t) ==
  IF signer = "signVendorPayload"
  THEN SignVendorPayload(payload, pgKey, t)
  ELSE PaymentJWTSign(payload, pgKey, t)

IsToken(s) == s # {}

\* validateEnv: a missing variable stops the start only in production
ValidateEnvThrows(pgKey, nodeEnv) == pgKey = None /\ nodeEnv = "production"

IdleSign ==
  [kind |-> "sign", pc |-> "boot", signer |-> None, payload |-> None,
   pgKey |-> None, nodeEnv |-> "development", t1 |-> 0, t2 |-> 0,
   s1 |-> {}, s2 |-> {}, sent |-> 0, code |-> 0]

\* process.env.PG_KEY is unset (None) or a configured key
InitSign ==
  /\ orders = <<>> /\ ledger = <<>> /\ webhookLogs = <<>>
  /\ \E signer \in {"signVendorPayload", "signCreateCollectRequest",
                    "signStatusCheck"},
        pgKey \in {None, "k1", "k2"},
        nodeEnv \in {"development", "production"},
        t1 \in 0..MaxClock, t2 \in 0..MaxClock :
       \E payload \in PayloadsOf(signer) :
         req = [r \in {1} |->
                  [IdleSign EXCEPT !.signer = signer, !.payload = payload,
                                   !.pgKey = pgKey, !.nodeEnv = nodeEnv,
                                   !.t1 = t1, !.t2 = t2]]

\* startServer: validateEnv() runs before the string-keyed application listens
StartServer(r) ==
  /\ req[r].pc = "boot"
  /\ req' = [req EXCEPT ![r] =
       IF req[r].signer = "signVendorPayload"
          /\ ValidateEnvThrows(req[r].pgKey, req[r].nodeEnv)
       THEN [req[r] EXCEPT !.pc = "down"]
       ELSE [req[r] EXCEPT !.pc = "first"]]
  /\ UNCHANGED <<orders, ledger, webhookLogs>>

\* a vendor call: sign the payload, then send the request with the signature
SignAndSend(r, from, to, t) ==
  /\ req[r].pc = from
  /\ LET s == SignWith(req[r].signer, req[r].payload, req[r].pgKey, t)
         rq == IF from = "first" THEN [req[r] EXCEPT !.s1 = s]
                                 ELSE [req[r] EXCEPT !.s2 = s]
     IN  req' = [req EXCEPT ![r] =
           IF IsToken(s)
           THEN [rq EXCEPT !.pc = to, !.sent = @ + 1]
           ELSE [rq EXCEPT !.pc = "done", !.code = 500]]
  /\ UNCHANGED <<orders, ledger, webhookLogs>>

SignFirst(r) == SignAndSend(r, "first", "second", req[r].t1)

SignSecond(r) == SignAndSend(r, "second", "done", req[r].t2)

NextSign ==
  \E r \in Reqs :
    \/ StartServer(r)
    \/ SignFirst(r)
    \/ SignSecond(r)

SpecSign == InitSign /\ [][NextSign]_vars

\* C23: the same payload signed at two different times with the same key
\* yields the same signature.
C23_DeterministicSigning ==
  \A r \in Reqs :
    (req[r].pc = "done" /\ IsToken(req[r].s1) /\ IsToken(req[r].s2)
       /\ req[r].t1 # req[r].t2)
      => req[r].s1 = req[r].s2

\* C24: when PG_KEY is not configured no request is sent to the vendor, and
\* a call that was attempted ended with an error.
C24_NoKeyNoRequest ==
  \A r \in Reqs :
    req[r].pgKey = None
      => /\ req[r].sent = 0
         /\ ~IsToken(req[r].s1)
         /\ req[r].pc = "done" => req[r].code = 500

C26_PlaceholderSuperseded ==
  (/\ req[1].pc = "l_found"
   /\ \E i \in Indexes(ledger) :
        ledger[i].collect_id = 1 /\ ledger[i].transaction_id # None)
    => req[1].ord # 1

(***************************************************************************)
(* Repeated status queries with an unchanged vendor answer                 *)
(***************************************************************************)
\* status queries made one after the other in SpecRepoll
MaxPolls == 3

\* the vendor's answer, the same at every poll
RepollAnswers ==
  [txn : {"T1", None}, raw : RawStatuses, amt : Amounts, pt : {NoTime, 1, 2}]

InitRepoll ==
  /\ orders = <<FreshOrder("ORD1", 1)>>
  /\ ledger = <<Placeholder(1)>>
  /\ webhookLogs = <<>>
  /\ \E a \in RepollAnswers :
       req = [k \in 1..MaxPolls |->
                [IdleReq EXCEPT !.kind = "poll", !.pc = "r_wait", !.cid = "ORD1",
                                !.role = "admin", !.txn = a.txn, !.raw = a.raw,
                                !.amt = a.amt, !.pt = a.pt]]

\* getTransactionStatus by an admin, run alone: the vendor answers, statusData
\* takes payment_time from the answer or the clock, upsertStatus (an error is
\* swallowed), findLatestByOrderId, 200.  items keeps the number of ledger
\* entries of the order at the response.
Repoll(k) ==
  /\ req[k].pc = "r_wait"
  /\ \A q \in Reqs : q < k => req[q].pc = "done"
  /\ LET order == FindByCustomOrderId(req[k].cid)
         obs == [ObsOf(req[k]) EXCEPT
                   !.payment_time = PaymentTimeOf(req[k].pt, Tick(ledger))]
         after == UpsertStatus(ledger, order, obs)
     IN  /\ ledger' = after
         /\ req' = [req EXCEPT ![k] =
              [req[k] EXCEPT !.pc = "done", !.code = 200, !.ord = order,
                             !.vcall = TRUE, !.wrote = (after # ledger),
                             !.items = Cardinality({i \in Indexes(after) :
                                           after[i].collect_id = order})]]
  /\ UNCHANGED <<orders, webhookLogs>>

NextRepoll == \E k \in Reqs : Repoll(k)

SpecRepoll == InitRepoll /\ [][NextRepoll]_vars

\* C27: polling the same order again while the vendor returns the same answer,
\* with or without a transaction_id, leaves the number of ledger entries of
\* the order as it was after the first poll.
C27_RepeatedPollNoNewEntry ==
  \A k \in Reqs :
    (k > 1 /\ req[k].pc = "done") => req[k].items = req[1].items

(***************************************************************************)
(* Status queries of callers of several schools                            *)
(***************************************************************************)
\* requests admitted in SpecQuery
MaxQuery == 2

\* one stored order, ORD1 of school SCH001; no order ORD2.  The callers are
\* an admin, users of either school and a user without school_id
InitQuery ==
  /\ orders = <<FreshOrder("ORD1", 1)>>
  /\ ledger = <<Placeholder(1)>>
  /\ webhookLogs = <<>>
  /\ req = [r \in 1..MaxQuery |-> IdleReq]

NextQuery ==
  \E r \in Reqs :
    \/ StartPoll(r, Users \cup {[role |-> "school", school_id |-> "SCH002"]},
                 CustomIds)
    \/ PollFindOrder(r)
    \/ PollVendor(r)
    \/ UpsertFind(r)
    \/ UpsertSave(r)
    \/ PollLatest(r)

SpecQuery == InitQuery /\ [][NextQuery]_vars

\* the query of r must be refused: no such order, or a non-admin caller whose
\* school_id is not the order's
MustRefuse(rq) ==
  \/ \A i \in Indexes(orders) : orders[i].custom_order_id # rq.cid
  \/ /\ rq.role # "admin"
     /\ \E i \in Indexes(orders) :
          orders[i].custom_order_id = rq.cid /\ orders[i].school_id # rq.usch

\* C28: a status query for an order that does not exist is answered 404, one
\* by a non-admin caller of another school 403; such a query makes no vendor
\* call, and none of its steps changes the ledger or the order.
C28_RefusedQueryNoEffects ==
  /\ [](\A r \in Reqs :
          (req[r].kind = "poll" /\ MustRefuse(req[r]))
            => /\ ~req[r].vcall /\ ~req[r].wrote
               /\ req[r].pc = "done" => req[r].code \in {403, 404})
  /\ [][\A r \in Reqs :
          (req[r].kind = "poll" /\ MustRefuse(req[r]) /\ req'[r] # req[r])
            => ledger' = ledger /\ orders' = orders]_vars

\* one query was refused with 404 and one with 403
C28_Witness ==
  \E r, q \in Reqs :
    /\ req[r].kind = "poll" /\ req[r].pc = "done" /\ req[r].code = 404
    /\ req[q].kind = "poll" /\ req[q].pc = "done" /\ req[q].code = 403
    /\ req[q].ord \in Indexes(orders)

\* the vendor poll of the query failed, or the upsert of its answer did
PollFailure(rq) ==
  /\ rq.kind = "poll" /\ rq.vcall
  /\ \/ rq.raw = None
     \/ ~ValidEntry(AssignedEntry(rq.ord, ObsOf(rq)))

\* C29: in an authorized status query whose vendor poll or ledger upsert
\* fails, no step of the query changes the ledger, the answer is 200, and the
\* entry returned is an entry of the order that no other entry of the order
\* exceeds in payment_time, nor equals in payment_time while exceeding it in
\* createdAt.
C29_VendorFailureNotFatal ==
  [][\A r \in Reqs :
       (PollFailure(req'[r]) /\ req'[r] # req[r])
         => /\ ledger' = ledger
            /\ req'[r].pc = "done"
                 => /\ req'[r].code = 200
                    /\ ~req'[r].wrote
                    /\ req'[r].latest \in Indexes(ledger)
                    /\ ledger[req'[r].latest].collect_id = req'[r].ord
                    /\ \A j \in Indexes(ledger) :
                         ledger[j].collect_id = req'[r].ord
                           => ~SortsBefore(ledger, j, req'[r].latest)]_vars

\* a query whose vendor poll failed was answered 200 with an entry that
\* another query had written
C29_Witness ==
  \E r \in Reqs :
    /\ req[r].pc = "done" /\ PollFailure(req[r]) /\ req[r].code = 200
    /\ req[r].latest > 1
    /\ ledger[req[r].latest].transaction_id # None

(***************************************************************************)
(* retryWithBackoff(operation, maxRetries, baseDelay, maxDelay)            *)
(***************************************************************************)
\* greatest maxRetries drawn
MaxRetriesBound == 3

\* the locals of one call of retryWithBackoff; the error thrown by attempt a
\* is identified by a, -1 stands for no error
IdleRetry ==
  [kind |-> "retry", pc |-> "call", maxRetries |-> 0, baseDelay |-> 0,
   maxDelay |-> 0, attempt |-> 0, hist |-> <<>>, waits |-> <<>>,
   lastError |-> -1, result |-> None, thrown |-> -1]

InitRetry ==
  /\ orders = <<>> /\ ledger = <<>> /\ webhookLogs = <<>>
  /\ \E m \in 0..MaxRetriesBound, b \in {1000, 3000},
        x \in {2000, 5000, 10000} :
       req = <<[IdleRetry EXCEPT !.maxRetries = m, !.baseDelay = b,
                                 !.maxDelay = x]>>

\* the loop body up to the delay: await operation(); return its result, or
\* catch the error and break when attempt === maxRetries, then throw lastError
RetryAttempt ==
  /\ req[1].pc = "call"
  /\ \E out \in {"ok", "fail"} :
       LET rq == [req[1] EXCEPT !.hist = Append(@, out)] IN
       req' = [req EXCEPT ![1] =
         IF out = "ok" THEN [rq EXCEPT !.pc = "done", !.result = "returned"]
         ELSE IF rq.attempt = rq.maxRetries
           THEN [rq EXCEPT !.pc = "done", !.result = "thrown",
                           !.lastError = rq.attempt, !.thrown = rq.attempt]
         ELSE [rq EXCEPT !.pc = "delay", !.lastError = rq.attempt]]
  /\ UNCHANGED <<orders, ledger, webhookLogs>>

\* await delay(delayTime); attempt++ and the loop test attempt <= maxRetries
RetryDelay ==
  /\ req[1].pc = "delay"
  /\ LET rq == [req[1] EXCEPT
                  !.waits = Append(@, DelayTime(req[1].attempt, req[1].baseDelay,
                                                req[1].maxDelay)),
                  !.attempt = @ + 1]
     IN  req' = [req EXCEPT ![1] =
           IF rq.attempt <= rq.maxRetries THEN [rq EXCEPT !.pc = "call"]
           ELSE [rq EXCEPT !.pc = "done", !.result = "thrown",
                           !.thrown = rq.lastError]]
  /\ UNCHANGED <<orders, ledger, webhookLogs>>

NextRetry == RetryAttempt \/ RetryDelay

\* the operation's promise settles and the timer of delay() fires
SpecRetryLive == InitRetry /\ [][NextRetry]_vars /\ WF_vars(NextRetry)

\* C30: retryWithBackoff ends; it calls the operation at most maxRetries+1
\* times, a successful attempt is the last one and its result is returned,
\* the wait before retry k is min(baseDelay * 2^(k-1), maxDelay) and never
\* more than maxDelay, and after maxRetries+1 failed attempts it throws the
\* last attempt's error with maxRetries waits in all.
C30_RetryTerminates ==
  /\ <>(req[1].pc = "done")
  /\ [](LET rq == req[1] IN
          /\ Len(rq.hist) <= rq.maxRetries + 1
          /\ \A k \in 1..Len(rq.hist) : rq.hist[k] = "ok" => k = Len(rq.hist)
          /\ \A k \in 1..Len(rq.waits) :
               /\ rq.waits[k] <= rq.maxDelay
               /\ \/ rq.waits[k] = rq.baseDelay * Pow2(k - 1)
                  \/ /\ rq.waits[k] = rq.maxDelay
                     /\ rq.maxDelay <= rq.baseDelay * Pow2(k - 1)
          /\ rq.pc = "done"
               => /\ Len(rq.waits) = Len(rq.hist) - 1
                  /\ rq.result = "returned" <=> rq.hist[Len(rq.hist)] = "ok"
                  /\ rq.result = "thrown"
                       => /\ Len(rq.hist) = rq.maxRetries + 1
                          /\ rq.thrown = rq.maxRetries)

\* three attempts failed, the capped delay was waited, the fourth attempt
\* failed and its error was thrown
C30_Witness ==
  /\ req[1].pc = "done" /\ req[1].result = "thrown"
  /\ req[1].maxRetries = 3 /\ req[1].baseDelay = 1000 /\ req[1].maxDelay = 2000
  /\ req[1].waits = <<1000, 2000, 2000>>
  /\ req[1].thrown = 3

====
